---- MODULE Spec2Model ----
(***************************************************************************)
(* State-machine model of iot-api-guide-v1.py: a Streamlit script that     *)
(* loads a CSV over HTTP through a 60 s TTL cache (load_sensor_data),      *)
(* cycles through its rows (fetch_sensor_data), appends one reading per    *)
(* polling cycle to a history trimmed to its last 50 entries, and offers   *)
(* two mocked control buttons (send_control_command).                      *)
(*                                                                         *)
(* One Cycle step is one iteration of the `while True` loop (lines         *)
(* 106-140) including its sleep.  A widget interaction re-runs the script  *)
(* from the top with the session state kept; it is modelled between two    *)
(* iterations.  An exception that escapes fetch_sensor_data ends the       *)
(* script run (pc = "crashed") until the next widget interaction.          *)
(***************************************************************************)
EXTENDS Integers, Sequences, FiniteSets, TLC

VARIABLES
    session_state,  \* st.session_state: "sensor_history", optional "csv_row_index"
    cache,          \* st.cache_data store of load_sensor_data: <<>> or <<entry>>
    sensor_data,    \* value returned by the latest fetch_sensor_data() (line 108)
    st_error,       \* st.error message shown by the latest load ("" if none)
    result,         \* string shown by the latest button handler ("" if none)
    device_id,      \* sidebar text input (line 76)
    refresh_rate,   \* sidebar slider (line 77)
    pc,             \* "polling" while the loop runs, "crashed" after an uncaught exception
    exception,      \* the uncaught exception that ended the script run ("none" if none)
    now,            \* wall clock, in seconds since the session started
    remote,         \* what a GET of SENSOR_DATA_URL would currently be answered with
    requests,       \* number of HTTP GETs issued so far
    last_load,      \* observation of the latest load_sensor_data() call
    last_request,   \* <<>> or <<the latest load that issued a GET and returned>>
    produced,       \* every reading the loop has appended so far, in order
    calls,          \* number of fetch_sensor_data() calls so far
    loaded,         \* set of outcomes (exception, table) the loads have had so far
    commands,       \* number of control commands sent so far
    env_steps       \* number of environment steps (remote changes, widget interactions, delays)

vars == <<session_state, cache, sensor_data, st_error, result, device_id,
          refresh_rate, pc, exception, now, remote, requests, last_load,
          last_request, produced, calls, loaded, commands, env_steps>>

-----------------------------------------------------------------------------
(* Program constants *)

TTL == 60                 \* @st.cache_data(ttl=60)
HistoryCap == 50          \* sensor_history[-50:]
DefaultRefreshRate == 10  \* slider default
MinRefreshRate == 5       \* slider minimum
MaxRefreshRate == 60      \* slider maximum

(* Bounds of the model *)

MaxCycles == 4      \* loop iterations explored by Spec
MaxEnvSteps == 2    \* environment steps (remote changes, widget interactions, delays) per run
LongExtra == 5      \* SpecLong runs HistoryCap + LongExtra iterations
LongLead == 2       \* SpecLong's environment starts to move LongLead iterations before the cap

LongCycles == HistoryCap + LongExtra
QuietCycles == HistoryCap - LongLead

-----------------------------------------------------------------------------
(* Data *)

RequiredColumns == <<"timestamp", "temperature", "humidity">>

Range(s) == {s[i] : i \in 1..Len(s)}

IndexOf(s, x) == CHOOSE i \in 1..Len(s) : s[i] = x

\* CSV payloads the URL may serve: a header line and data lines.
CsvA == [header |-> RequiredColumns,
         lines |-> << <<"t0", 20, 50>>, <<"t1", 21, 51>> >>]
CsvB == [header |-> RequiredColumns,
         lines |-> << <<"t0", 30, 60>>, <<"t1", 31, 61>>, <<"t2", 32, 62>> >>]
CsvHeaderOnly == [header |-> RequiredColumns, lines |-> << >>]
CsvNoTemperature == [header |-> <<"timestamp", "humidity">>,
                     lines |-> << <<"t0", 50>>, <<"t1", 51>> >>]
CsvNoTimestamp == [header |-> <<"temperature", "humidity">>,
                   lines |-> << <<25, 55>>, <<26, 56>> >>]
CsvRagged == [header |-> RequiredColumns,
              lines |-> << <<"t0", 20, 50>>, <<"t1", 21, 51, 99>> >>]
CsvBlank == [header |-> << >>, lines |-> << >>]

Payloads == {CsvA, CsvB, CsvHeaderOnly, CsvNoTemperature, CsvNoTimestamp,
             CsvRagged, CsvBlank}

\* Answers to requests.get(SENSOR_DATA_URL, timeout=5).
Responses == {[status |-> "200", text |-> p] : p \in Payloads}
             \cup {[status |-> "404", text |-> CsvBlank],
                   [status |-> "timeout", text |-> CsvBlank]}

RefreshRates == {MinRefreshRate, DefaultRefreshRate, MaxRefreshRate}
DeviceIds == {"device_001", "lamp_7"}

\* pd.DataFrame(columns=[...]): a frame with the given columns and no rows.
DataFrame(columns) == [columns |-> columns, rows |-> << >>]

\* df.empty: true when either axis has length 0.
Empty(df) == Len(df.columns) = 0 \/ Len(df.rows) = 0

\* pd.read_csv(StringIO(text)): EmptyDataError when there is nothing to parse,
\* ParserError when a data line has more fields than the header, else one row
\* per data line, keyed by the header's column names.
read_csv(text) ==
    IF Len(text.header) = 0
    THEN [exc |-> "EmptyDataError", df |-> DataFrame(<< >>)]
    ELSE IF \E i \in 1..Len(text.lines) : Len(text.lines[i]) > Len(text.header)
    THEN [exc |-> "ParserError", df |-> DataFrame(<< >>)]
    ELSE [exc |-> "none",
          df |-> [columns |-> text.header,
                  rows |-> [i \in 1..Len(text.lines) |->
                              [c \in Range(text.header) |->
                                  text.lines[i][IndexOf(text.header, c)]]]]]

\* requests.get(...) followed by response.raise_for_status().
Get(response) ==
    IF response.status = "200"
    THEN [exc |-> "none", text |-> response.text]
    ELSE [exc |-> "RequestException", text |-> CsvBlank]

-----------------------------------------------------------------------------
(* load_sensor_data and its cache *)

\* Faulty variant: the TTL is never applied, an entry is never served.
NeverFresh(entry, t) == t < entry.stored_at

\* An entry of the st.cache_data store is served while it is younger than the TTL.
Fresh(entry, t) == t < entry.stored_at + TTL

\* Faulty variant: the except branches return a frame without columns (pd.DataFrame()).
load_body_bare_fallback(response) ==
    LET got == Get(response) IN
    IF got.exc # "none"
    THEN [exc |-> "none", df |-> DataFrame(<< >>),
          error |-> "Error fetching sensor data from GitHub"]
    ELSE LET parsed == read_csv(got.text) IN
         IF parsed.exc = "ParserError"
         THEN [exc |-> "none", df |-> DataFrame(<< >>),
               error |-> "Invalid CSV format in sensor_data.csv"]
         ELSE [exc |-> parsed.exc, df |-> parsed.df, error |-> ""]

\* The body of load_sensor_data (lines 32-44): what a cache miss computes.
load_body(response) ==
    LET got == Get(response) IN
    IF got.exc # "none"
    THEN [exc |-> "none", df |-> DataFrame(RequiredColumns),
          error |-> "Error fetching sensor data from GitHub"]
    ELSE LET parsed == read_csv(got.text) IN
         IF parsed.exc = "ParserError"
         THEN [exc |-> "none", df |-> DataFrame(RequiredColumns),
               error |-> "Invalid CSV format in sensor_data.csv"]
         ELSE IF parsed.exc # "none"
         THEN [exc |-> parsed.exc, df |-> parsed.df, error |-> ""]
         ELSE [exc |-> "none", df |-> parsed.df, error |-> ""]

\* Faulty variant: a load that fell back to the empty frame is not stored (as if the
\* except branches re-raised).
load_sensor_data_forgets_failures(store, t, response) ==
    IF Len(store) > 0 /\ Fresh(store[1], t)
    THEN [exc |-> "none", df |-> store[1].value, error |-> store[1].error,
          requested |-> FALSE, store |-> store]
    ELSE LET r == load_body(response) IN
         [exc |-> r.exc, df |-> r.df, error |-> r.error, requested |-> TRUE,
          store |-> IF r.exc = "none" /\ r.error = ""
                    THEN << [value |-> r.df, error |-> r.error, stored_at |-> t] >>
                    ELSE << >>]

\* load_sensor_data() under @st.cache_data(ttl=60): a fresh entry is returned
\* (with its recorded st.error) without running the body; otherwise the body
\* runs, and its return value is stored unless it raised.
load_sensor_data(store, t, response) ==
    IF Len(store) > 0 /\ Fresh(store[1], t)
    THEN [exc |-> "none", df |-> store[1].value, error |-> store[1].error,
          requested |-> FALSE, store |-> store]
    ELSE LET r == load_body(response) IN
         [exc |-> r.exc, df |-> r.df, error |-> r.error, requested |-> TRUE,
          store |-> IF r.exc = "none"
                    THEN << [value |-> r.df, error |-> r.error, stored_at |-> t] >>
                    ELSE << >>]

-----------------------------------------------------------------------------
(* fetch_sensor_data *)

HasIndex(ss) == "csv_row_index" \in DOMAIN ss

\* Faulty variant: no wrap-around, the index sticks to the last row (df.iloc[min(i, len - 1)]).
RowAtClamped(df, i) ==
    df.rows[(IF i < Len(df.rows) THEN i ELSE Len(df.rows) - 1) + 1]

\* df.iloc[i % len(df)]
RowAt(df, i) == df.rows[(i % Len(df.rows)) + 1]

\* Faulty variant: the index is created and incremented before the emptiness test.
fetch_rows_counting_empty(df, ss) ==
    LET ss1 == IF HasIndex(ss) THEN ss
               ELSE [sensor_history |-> ss.sensor_history, csv_row_index |-> 0]
        ss2 == [ss1 EXCEPT !.csv_row_index = @ + 1]
    IN  IF Empty(df)
        THEN [exc |-> "none", value |-> [temperature |-> 0, humidity |-> 0],
              ss |-> ss2]
        ELSE LET row == RowAt(df, ss1.csv_row_index) IN
             IF "temperature" \in DOMAIN row /\ "humidity" \in DOMAIN row
             THEN [exc |-> "none",
                   value |-> [temperature |-> row["temperature"],
                              humidity |-> row["humidity"]],
                   ss |-> ss2]
             ELSE [exc |-> "KeyError",
                   value |-> [temperature |-> 0, humidity |-> 0], ss |-> ss2]

\* Lines 49-63, given the frame the load returned.
fetch_rows(df, ss) ==
    IF Empty(df)
    THEN [exc |-> "none", value |-> [temperature |-> 0, humidity |-> 0], ss |-> ss]
    ELSE LET ss1 == IF HasIndex(ss) THEN ss
                    ELSE [sensor_history |-> ss.sensor_history, csv_row_index |-> 0]
             row == RowAt(df, ss1.csv_row_index)
             ss2 == [ss1 EXCEPT !.csv_row_index = @ + 1]
         IN  IF "temperature" \in DOMAIN row /\ "humidity" \in DOMAIN row
             THEN [exc |-> "none",
                   value |-> [temperature |-> row["temperature"],
                              humidity |-> row["humidity"]],
                   ss |-> ss2]
             ELSE [exc |-> "KeyError",
                   value |-> [temperature |-> 0, humidity |-> 0], ss |-> ss2]

\* fetch_sensor_data(): the load, then the row selection; an exception of the
\* load propagates before the session state is touched.
fetch_sensor_data(store, t, response, ss) ==
    LET l == load_sensor_data(store, t, response)
        f == fetch_rows(l.df, ss)
    IN  [load |-> l,
         exc |-> IF l.exc # "none" THEN l.exc ELSE f.exc,
         value |-> f.value,
         ss |-> IF l.exc # "none" THEN ss ELSE f.ss]

-----------------------------------------------------------------------------
(* The polling loop *)

\* datetime.now().strftime("%Y-%m-%d %H:%M:%S"), relative to the session's start:
\* hours, minutes, seconds.
Strftime(t) == <<t \div 3600, (t \div 60) % 60, t % 60>>

\* Faulty variant: the slice keeps one entry too many (h[-51:]).
TrimKeepsOneMore(h) == IF Len(h) <= HistoryCap + 1 THEN h
                       ELSE SubSeq(h, Len(h) - HistoryCap, Len(h))

\* Faulty variant: the slice keeps the first 50 entries (h[:50]).
TrimKeepsOldest(h) == IF Len(h) <= HistoryCap THEN h
                      ELSE SubSeq(h, 1, HistoryCap)

\* h[-50:]
Trim(h) == IF Len(h) <= HistoryCap THEN h
           ELSE SubSeq(h, Len(h) - HistoryCap + 1, Len(h))

\* Lines 112-119: append the stamped reading, keep the last 50.
Record(h, t, data) ==
    Trim(Append(h, [timestamp |-> Strftime(t),
                    temperature |-> data.temperature,
                    humidity |-> data.humidity]))

Stamped(t, data) == [timestamp |-> Strftime(t),
                     temperature |-> data.temperature,
                     humidity |-> data.humidity]

\* One iteration of `while True` (lines 106-140), its sleep included.
Iteration ==
    /\ pc = "polling"
    /\ LET f == fetch_sensor_data(cache, now, remote, session_state) IN
       /\ cache' = f.load.store
       /\ st_error' = f.load.error
       /\ requests' = requests + (IF f.load.requested THEN 1 ELSE 0)
       /\ calls' = calls + 1
       /\ last_load' = [at |-> now, requested |-> f.load.requested,
                        exc |-> f.load.exc, df |-> f.load.df,
                        fetch_exc |-> f.exc, response |-> remote, prev |-> last_request,
                        index_before |-> IF HasIndex(session_state)
                                         THEN session_state.csv_row_index ELSE -1,
                        produced_before |-> Len(produced)]
       /\ last_request' = IF ~f.load.requested THEN last_request
                          ELSE IF f.load.exc # "none" THEN << >>
                          ELSE << [at |-> now, df |-> f.load.df,
                                   failed |-> f.load.error # ""] >>
       /\ loaded' = loaded \cup {[exc |-> f.load.exc, df |-> f.load.df]}
       /\ IF f.exc # "none"
          THEN /\ pc' = "crashed"
               /\ exception' = f.exc
               /\ session_state' = f.ss
               /\ UNCHANGED <<sensor_data, produced, now>>
          ELSE /\ sensor_data' = f.value
               /\ session_state' =
                     [f.ss EXCEPT !.sensor_history = Record(@, now, f.value)]
               /\ produced' = Append(produced, Stamped(now, f.value))
               /\ now' = now + refresh_rate
               /\ UNCHANGED <<pc, exception>>
    /\ UNCHANGED <<result, device_id, refresh_rate, remote, commands, env_steps>>

-----------------------------------------------------------------------------
(* Widget interactions: each re-runs the script from the top *)

\* Faulty variant: every script run starts with a new history and no row index.
InitHistoryAlways(ss) == [sensor_history |-> << >>]

\* Lines 90-91: the history is created only when the session has none.
InitHistory(ss) ==
    IF "sensor_history" \in DOMAIN ss THEN ss
    ELSE [sensor_history |-> << >>]

\* Lines 66-72.
send_control_command(device, state) ==
    [exc |-> "none", value |-> <<"Mock: Command ", state, " sent to ", device>>]

Rerun ==
    /\ session_state' = InitHistory(session_state)
    /\ pc' = "polling"
    /\ exception' = "none"
    /\ env_steps' = env_steps + 1
    /\ UNCHANGED <<cache, sensor_data, st_error, now, remote, requests, last_load,
                   last_request, produced, calls, loaded>>

Press(state) ==
    /\ Rerun
    /\ result' = send_control_command(device_id, state).value
    /\ commands' = commands + 1
    /\ UNCHANGED <<device_id, refresh_rate>>

MoveSlider(r) ==
    /\ r # refresh_rate
    /\ Rerun
    /\ refresh_rate' = r
    /\ result' = << >>
    /\ UNCHANGED <<device_id, commands>>

TypeDeviceId(d) ==
    /\ d # device_id
    /\ Rerun
    /\ device_id' = d
    /\ result' = << >>
    /\ UNCHANGED <<refresh_rate, commands>>

\* The remote source starts answering differently.
Serve(response) ==
    /\ response # remote
    /\ remote' = response
    /\ env_steps' = env_steps + 1
    /\ UNCHANGED <<session_state, cache, sensor_data, st_error, result, device_id,
                   refresh_rate, pc, exception, now, requests, last_load,
                   last_request, produced, calls, loaded, commands>>

\* The script takes a second longer than its sleep (request, rendering).
Elapse ==
    /\ now' = now + 1
    /\ env_steps' = env_steps + 1
    /\ UNCHANGED <<session_state, cache, sensor_data, st_error, result, device_id,
                   refresh_rate, pc, exception, remote, requests, last_load,
                   last_request, produced, calls, loaded, commands>>

-----------------------------------------------------------------------------
(* Specifications *)

Init ==
    /\ session_state = [sensor_history |-> << >>]
    /\ cache = << >>
    /\ sensor_data = [temperature |-> 0, humidity |-> 0]
    /\ st_error = ""
    /\ result = << >>
    /\ device_id = "device_001"
    /\ refresh_rate = DefaultRefreshRate
    /\ pc = "polling"
    /\ exception = "none"
    /\ now = 0
    /\ remote \in Responses
    /\ requests = 0
    /\ last_load = [at |-> 0, requested |-> FALSE, exc |-> "none",
                    df |-> DataFrame(<< >>), fetch_exc |-> "none",
                    response |-> remote, prev |-> << >>,
                    index_before |-> -1, produced_before |-> 0]
    /\ last_request = << >>
    /\ produced = << >>
    /\ calls = 0
    /\ loaded = {}
    /\ commands = 0
    /\ env_steps = 0

\* Spec: short runs, the environment free to move from the start.
Cycle == calls < MaxCycles /\ Iteration
TurnOn == env_steps < MaxEnvSteps /\ Press("ON")
TurnOff == env_steps < MaxEnvSteps /\ Press("OFF")
SetRefreshRate == env_steps < MaxEnvSteps /\ \E r \in RefreshRates : MoveSlider(r)
SetDeviceId == env_steps < MaxEnvSteps /\ \E d \in DeviceIds : TypeDeviceId(d)
RemoteChange == env_steps < MaxEnvSteps /\ \E r \in Responses : Serve(r)
Delay == env_steps < MaxEnvSteps /\ Elapse

Next == Cycle \/ TurnOn \/ TurnOff \/ SetRefreshRate \/ SetDeviceId \/ RemoteChange
        \/ Delay

Spec == Init /\ [][Next]_vars

\* SpecLong: runs past the history's capacity; the environment is still until
\* shortly before the capacity is reached.
Moving == calls >= QuietCycles /\ env_steps < MaxEnvSteps
LongCycle == calls < LongCycles /\ Iteration
LongTurnOn == Moving /\ Press("ON")
LongRemoteChange == Moving /\ \E r \in Responses : Serve(r)

NextLong == LongCycle \/ LongTurnOn \/ LongRemoteChange

SpecLong == Init /\ [][NextLong]_vars

-----------------------------------------------------------------------------
(* Claims *)

History == session_state.sensor_history

Zero == [temperature |-> 0, humidity |-> 0]

Min(a, b) == IF a <= b THEN a ELSE b

\* The index as fetch_sensor_data sees it: -1 while the session has none.
IndexOrNone == IF HasIndex(session_state) THEN session_state.csv_row_index ELSE -1

\* C1: at the end of every polling cycle the sample history holds at most 50
\* readings, whatever fetches (successful, failed, empty) came before.
C1_HistoryAtMostCap == Len(History) <= HistoryCap

\* C1 witness: more than 50 readings were produced, from failed and from
\* successful fetches, and the history is full.
C1_Witness ==
    /\ Len(produced) > HistoryCap
    /\ Len(History) = HistoryCap
    /\ \E i, j \in 1..Len(History) :
          History[i].temperature = 0 /\ History[j].temperature # 0

\* C2: after m polling cycles the history is the last min(m, 50) readings
\* produced, in the order produced: entry i is reading m - min(m, 50) + i.
C2_HistoryIsLastReadings ==
    LET m == Len(produced)
        n == Min(m, HistoryCap)
    IN  /\ Len(History) = n
        /\ \A i \in 1..n : History[i] = produced[m - n + i]

\* C2 witness: at least two readings have been dropped from the front.
C2_Witness ==
    /\ Len(produced) >= HistoryCap + 2
    /\ History[1] = produced[Len(produced) - HistoryCap + 1]
    /\ History[1] # produced[1]

\* The required columns a frame lacks.
Missing(df) == Range(RequiredColumns) \ Range(df.columns)

Loaded == calls > 0 /\ last_load.exc = "none"

\* C3: while every load returns the same non-empty table T (one that has the
\* temperature and humidity columns), the k-th call of fetch_sensor_data,
\* k = 0, 1, 2, ..., returns the temperature and humidity of row k mod len(T),
\* and the row index equals the number of calls made.
C3_RowsCycleInOrder ==
    \A o \in loaded :
        (/\ loaded = {o}
         /\ o.exc = "none"
         /\ ~Empty(o.df)
         /\ {"temperature", "humidity"} \subseteq Range(o.df.columns))
        => LET k == calls - 1
               row == o.df.rows[(k % Len(o.df.rows)) + 1]
           IN  /\ pc = "polling"
               /\ IndexOrNone = calls
               /\ sensor_data = [temperature |-> row["temperature"],
                                 humidity |-> row["humidity"]]

\* C3 witness: the two-row table, three calls made, the third read row 0 again.
C3_Witness ==
    /\ loaded = {[exc |-> "none", df |-> read_csv(CsvA).df]}
    /\ calls = 3
    /\ IndexOrNone = 3
    /\ sensor_data = [temperature |-> 20, humidity |-> 50]

\* C4 (as claimed): a loaded table that lacks one of timestamp, temperature,
\* humidity comes with an error message and is empty, and the row-cycling step
\* does not consume it: the row index is left as it was.
C4_SchemaMismatchYieldsEmpty ==
    (Loaded /\ Missing(last_load.df) # {})
    => /\ st_error # ""
       /\ Empty(last_load.df)
       /\ IndexOrNone = last_load.index_before

\* The fetch-time error outcomes C5 lists, as the latest load shows them:
\* a network failure or non-2xx status, a malformed payload, a payload that
\* lacks a required column.
FetchErrorOutcome ==
    /\ Loaded
    /\ \/ st_error # ""
       \/ Missing(last_load.df) # {}

\* C5 (as claimed): a cycle with a fetch-time error outcome leaves the loop
\* running and appends a reading stamped with the time of that cycle.
C5_LoopSurvivesFetchErrors ==
    FetchErrorOutcome
    => /\ pc = "polling"
       /\ exception = "none"
       /\ last_load.fetch_exc = "none"
       /\ Len(produced) = last_load.produced_before + 1
       /\ produced[Len(produced)].timestamp = Strftime(last_load.at)

\* C6: when the loaded table is empty the fetch returns {temperature: 0,
\* humidity: 0} and leaves the row index as it was (absent or present), the
\* cycle still appends that reading and the history stays within 50; when the
\* loaded table is not empty the row read is the one at the index reached
\* before, so that cycling resumes there after an empty period.
C6_EmptyTableFallback ==
    /\ (Loaded /\ Empty(last_load.df))
       => /\ sensor_data = Zero
          /\ IndexOrNone = last_load.index_before
          /\ pc = "polling"
          /\ Len(produced) = last_load.produced_before + 1
          /\ History[Len(History)] =
                [timestamp |-> Strftime(last_load.at), temperature |-> 0,
                 humidity |-> 0]
          /\ Len(History) <= HistoryCap
    /\ (Loaded /\ ~Empty(last_load.df) /\ last_load.fetch_exc = "none")
       => LET i == IF last_load.index_before = -1 THEN 0
                   ELSE last_load.index_before
              row == last_load.df.rows[(i % Len(last_load.df.rows)) + 1]
          IN  /\ sensor_data = [temperature |-> row["temperature"],
                                humidity |-> row["humidity"]]
              /\ IndexOrNone = i + 1

\* C6 witness: with a full history, a non-empty table has reappeared after
\* an empty period and the row index carried over the period is in use.
C6_Witness ==
    /\ Len(produced) > HistoryCap
    /\ Len(History) = HistoryCap
    /\ Loaded /\ ~Empty(last_load.df)
    /\ last_load.index_before >= 1
    /\ History[HistoryCap - 1].temperature = 0
    /\ History[HistoryCap - 1].humidity = 0
    /\ History[HistoryCap].temperature # 0
    /\ \E i \in 1..(HistoryCap - 2) : History[i].temperature # 0

\* C7: after a load at time t0 that issued a request and returned a table,
\* a load before t0 + TTL returns that table and issues no request; a load
\* after t0 + TTL issues a request, and returns the table the remote serves
\* then.
C7_MemoizedByTimeOnly ==
    (calls > 0 /\ last_load.prev # << >>)
    => LET prev == last_load.prev[1]
           served == read_csv(last_load.response.text)
       IN  /\ last_load.at < prev.at + TTL
              => /\ ~last_load.requested
                 /\ last_load.exc = "none"
                 /\ last_load.df = prev.df
           /\ last_load.at > prev.at + TTL
              => /\ last_load.requested
                 /\ (last_load.response.status = "200" /\ served.exc = "none")
                    => (last_load.exc = "none" /\ last_load.df = served.df)

\* C7 witness: an earlier load was answered from the cache, and the latest
\* one, later than t0 + TTL, fetched a table that differs from the cached one.
C7_Witness ==
    /\ calls > requests
    /\ last_load.prev # << >>
    /\ last_load.at > last_load.prev[1].at + TTL
    /\ last_load.requested
    /\ last_load.exc = "none"
    /\ ~Empty(last_load.df)
    /\ ~Empty(last_load.prev[1].df)
    /\ last_load.df # last_load.prev[1].df

\* C8: when the request fails (network failure, timeout, non-2xx status) or
\* the payload is malformed CSV, the load returns a frame with the columns
\* timestamp, temperature, humidity and no rows, the row index is left as it
\* was and the history gains nothing but the cycle's own reading.
RequestFailed(response) ==
    \/ response.status # "200"
    \/ \E i \in 1..Len(response.text.lines) :
           Len(response.text.lines[i]) > Len(response.text.header)

C9_CommandIsPure ==
    [][commands' # commands
       => /\ session_state' = session_state
          /\ \E s \in {"ON", "OFF"} :
                result' = <<"Mock: Command ", s, " sent to ", device_id>>
          /\ pc' = "polling"
          /\ exception' = "none"]_vars

\* C9 witness: OFF was sent to the second device id in a session that has
\* readings and a row index.
C9_Witness ==
    /\ commands >= 1
    /\ result = <<"Mock: Command ", "OFF", " sent to ", "lamp_7">>
    /\ Len(History) >= 1
    /\ IndexOrNone >= 1

\* C10: after a load at t0 that failed and returned the empty fallback, a
\* cycle before t0 + 60 s gets the cached empty table without a request and
\* appends a zero reading, whatever the remote would answer by then; a
\* non-zero reading appears only at or after t0 + 60 s.
C10_FailureIsMemoized ==
    (calls > 0 /\ last_load.prev # << >> /\ last_load.prev[1].failed)
    => LET prev == last_load.prev[1] IN
       /\ last_load.at < prev.at + TTL
          => /\ ~last_load.requested
             /\ Empty(last_load.df)
             /\ sensor_data = Zero
             /\ pc = "polling"
             /\ History[Len(History)] =
                   [timestamp |-> Strftime(last_load.at), temperature |-> 0,
                    humidity |-> 0]
       /\ (sensor_data # Zero) => last_load.at >= prev.at + TTL

\* C10 witness: the remote has recovered (it would serve the two-row table),
\* yet the cycle, inside the TTL of a failed load, appended a zero reading.
C10_Witness ==
    /\ calls > 0 /\ last_load.prev # << >> /\ last_load.prev[1].failed
    /\ last_load.at < last_load.prev[1].at + TTL
    /\ last_load.at > last_load.prev[1].at
    /\ last_load.response = [status |-> "200", text |-> CsvA]
    /\ ~last_load.requested
    /\ sensor_data = Zero

====
